---- MODULE Spec2Model ----
(***************************************************************************)
(* RSNInformation (libtins, src/rsn_information.cpp): the codec of the     *)
(* IEEE 802.11 RSN information element.  The entity, its mutators, the     *)
(* parser (init), the serializer and the two factories are modelled at the *)
(* level of bytes: integers are laid out in memory in the byte order of    *)
(* the host the library was built for (hostBig), and Endian::host_to_le /  *)
(* Endian::le_to_host swap bytes on a big-endian host and do nothing on a  *)
(* little-endian one.                                                      *)
(***************************************************************************)
EXTENDS Integers, Sequences, FiniteSets, TLC

VARIABLES
    hostBig,    \* TRUE when the build targets a big-endian host
    info,       \* the RSNInformation the caller holds
    twin,       \* a second RSNInformation built by the same calls as info
    wire,       \* info.serialize() of the entity as it stands, <<>> before
    twin_wire,  \* twin.serialize(), taken together with wire
    buffer,     \* memory holding a received element (and what follows it)
    total_sz,   \* the declared length of the received element
    outcome     \* what the latest parsing constructor / from_option did

vars == <<hostBig, info, twin, wire, twin_wire, buffer, total_sz, outcome>>

(***************************************************************************)
(* Bounds of the exploration.                                              *)
(***************************************************************************)
\* longest list built through the mutators in Spec
MaxList == 2
\* longest list laid out in a received buffer
MaxParseList == 2
\* largest value of a count field in a received buffer
MaxCount == 3
\* calls of add_pairwise_cypher already made when SpecWide starts
WideFill == 65535
\* further calls of add_pairwise_cypher explored by SpecWide
WideRoom == 2

(***************************************************************************)
(* Suite codes and the values the exploration draws.                       *)
(***************************************************************************)
TKIP == 2
CCMP == 4
PMKSA == 1
PSK == 2

Versions == {1, 258}
Capabilities == {0, 12}
Cyphers == {TKIP, CCMP}
AKMs == {PMKSA, PSK}
\* what an uninitialised 32-bit member may hold
Indeterminate == {0, 7}

(***************************************************************************)
(* Integers in memory.                                                     *)
(***************************************************************************)
Pow256(i) == IF i = 0 THEN 1 ELSE IF i = 1 THEN 256 ELSE IF i = 2 THEN 65536 ELSE 16777216

\* byte i (0 = least significant) of x
ByteOf(x, i) == (x \div Pow256(i)) % 256

\* conversion to a 16-bit unsigned integer
uint16(x) == x % 65536

\* the value whose bytes are those of the w-byte integer x in reverse order
bswap(x, w) ==
    IF w = 2 THEN ByteOf(x, 0) * 256 + ByteOf(x, 1)
    ELSE ByteOf(x, 0) * 16777216 + ByteOf(x, 1) * 65536 + ByteOf(x, 2) * 256 + ByteOf(x, 3)

\* Endian::host_to_le<T>, T of w bytes
host_to_le(x, w) == IF hostBig THEN bswap(x, w) ELSE x

\* Endian::le_to_host<T>, T of w bytes
le_to_host(x, w) == IF hostBig THEN bswap(x, w) ELSE x

\* std::memcpy(ptr, &x, w): the w bytes of x as they lie in the host's memory
memcpy(x, w) == [i \in 1..w |-> IF hostBig THEN ByteOf(x, w - i) ELSE ByteOf(x, i - 1)]

\* the byte of mem at offset off; what lies past the modelled memory reads as 0
MemAt(mem, off) == IF off < Len(mem) THEN mem[off + 1] ELSE 0

\* the w-byte integer whose object representation are the bytes of mem at off
read_value(mem, off, w) ==
    IF w = 2
    THEN IF hostBig
         THEN MemAt(mem, off) * 256 + MemAt(mem, off + 1)
         ELSE MemAt(mem, off + 1) * 256 + MemAt(mem, off)
    ELSE IF hostBig
         THEN MemAt(mem, off) * 16777216 + MemAt(mem, off + 1) * 65536
              + MemAt(mem, off + 2) * 256 + MemAt(mem, off + 3)
         ELSE MemAt(mem, off + 3) * 16777216 + MemAt(mem, off + 2) * 65536
              + MemAt(mem, off + 1) * 256 + MemAt(mem, off)

(***************************************************************************)
(* The entity: constructors and mutators.                                  *)
(***************************************************************************)
\* RSNInformation(): _version(1), _capabilities(0); _group_suite is not
\* initialised and holds whatever the storage held
RSNInformation(indeterminate) ==
    [_version |-> 1, _group_suite |-> indeterminate, _pairwise_cyphers |-> <<>>,
     _akm_cyphers |-> <<>>, _capabilities |-> 0]

\* the object a parsing constructor hands to init: empty lists, and three
\* scalar members that init assigns before anything reads them
Unparsed ==
    [_version |-> 0, _group_suite |-> 0, _pairwise_cyphers |-> <<>>,
     _akm_cyphers |-> <<>>, _capabilities |-> 0]

add_pairwise_cypher(e, cypher) ==
    [e EXCEPT !._pairwise_cyphers = Append(@, cypher)]

add_akm_cypher(e, akm) ==
    [e EXCEPT !._akm_cyphers = Append(@, akm)]

group_suite(e, group) ==
    [e EXCEPT !._group_suite = host_to_le(group, 4)]

version(e, ver) ==
    [e EXCEPT !._version = host_to_le(ver, 2)]

capabilities(e, cap) ==
    [e EXCEPT !._capabilities = host_to_le(cap, 2)]

(***************************************************************************)
(* serialize().                                                            *)
(***************************************************************************)
\* serialize_size without the two count fields
serialize_size_nocounts(e) ==
    2 + 2 + 4 + 4 * (Len(e._akm_cyphers) + Len(e._pairwise_cyphers))

\* the size the buffer is allocated with
serialize_size(e) ==
    2 + 2 + 4 + 2 * 2 + 4 * (Len(e._akm_cyphers) + Len(e._pairwise_cyphers))

\* the two count fields as serialize computes them
pairwise_cyphers_size(e) == host_to_le(uint16(Len(e._pairwise_cyphers)), 2)
akm_cyphers_size(e) == host_to_le(uint16(Len(e._akm_cyphers)), 2)

\* list_writes copying each entry as the host holds it
list_writes_unconverted(list) ==
    LET copied == [k \in 1..Len(list) |-> memcpy(list[k], 4)]
    IN [i \in 1..(4 * Len(list)) |-> copied[((i - 1) \div 4) + 1][((i - 1) % 4) + 1]]

\* the bytes the two loops write: each entry converted, then 4 bytes copied
list_writes(list) ==
    LET copied == [k \in 1..Len(list) |-> memcpy(host_to_le(list[k], 4), 4)]
    IN [i \in 1..(4 * Len(list)) |-> copied[((i - 1) \div 4) + 1][((i - 1) % 4) + 1]]

\* every byte serialize writes through ptr, in the order it writes them
serialize_writes(e) ==
    memcpy(e._version, 2)
    \o memcpy(e._group_suite, 4)
    \o memcpy(pairwise_cyphers_size(e), 2)
    \o list_writes(e._pairwise_cyphers)
    \o memcpy(akm_cyphers_size(e), 2)
    \o list_writes(e._akm_cyphers)
    \o memcpy(e._capabilities, 2)

\* the returned buffer: size value-initialised bytes overwritten from the start
serialize(e) ==
    LET size == serialize_size(e)
        written == serialize_writes(e)
    IN [i \in 1..size |-> IF i <= Len(written) THEN written[i] ELSE 0]

\* wpa2_psk()
wpa2_psk ==
    LET info0 == RSNInformation(CHOOSE g \in Indeterminate : TRUE)
    IN add_akm_cypher(add_pairwise_cypher(group_suite(info0, CCMP), CCMP), PSK)

(***************************************************************************)
(* Memory::InputMemoryStream: a cursor over total_sz bytes of memory.      *)
(***************************************************************************)
InputMemoryStream(mem, sz) == [mem |-> mem, pos |-> 0, size |-> sz]

\* can_read(byte_count): that many bytes are left
can_read(stream, byte_count) == stream.size >= byte_count

\* the cursor moved past w bytes
skip(stream, w) == [stream EXCEPT !.pos = @ + w, !.size = @ - w]

\* read<T>() raises malformed_packet, and reads nothing, when fewer than
\* sizeof(T) bytes are left
read_fails(stream, w) == ~can_read(stream, w)

\* Endian::le_to_host(stream.read<T>()) when read<T>() does not raise
read_le(stream, w) == le_to_host(read_value(stream.mem, stream.pos, w), w)

(***************************************************************************)
(* init(buffer, total_sz), the parser behind both parsing constructors.    *)
(* Its result records how the call ended: status "ok" with the entity, or  *)
(* the exception raised, the step that raised it (failed_at), the offset   *)
(* one past the last byte read (read_end) and the entries appended to the  *)
(* two lists by then.                                                      *)
(***************************************************************************)
Returned(stream, e) ==
    [status |-> "ok", failed_at |-> "none", entity |-> e, read_end |-> stream.pos,
     pairwise_read |-> Len(e._pairwise_cyphers), akm_read |-> Len(e._akm_cyphers)]

Thrown(what, where, stream, e) ==
    [status |-> what, failed_at |-> where, entity |-> Unparsed, read_end |-> stream.pos,
     pairwise_read |-> Len(e._pairwise_cyphers), akm_read |-> Len(e._akm_cyphers)]

\* init_stream over all the memory there is, not the declared length
init_stream_whole(mem, sz) == InputMemoryStream(mem, Len(mem))

\* the stream init reads from
init_stream(mem, sz) == InputMemoryStream(mem, sz)

\* the check made once the pairwise count is read
pairwise_can_read(stream, count) == can_read(stream, count)

\* the check made once the AKM count is read
akm_can_read(stream, count) == can_read(stream, count)

\* while (pairwise_cyphers_size--) add_pairwise_cypher(read<uint32_t>())
RECURSIVE read_pairwise_cyphers(_, _, _)
read_pairwise_cyphers(stream, e, count) ==
    IF count = 0 THEN [ok |-> TRUE, stream |-> stream, e |-> e]
    ELSE IF read_fails(stream, 4) THEN [ok |-> FALSE, stream |-> stream, e |-> e]
    ELSE read_pairwise_cyphers(skip(stream, 4),
                               add_pairwise_cypher(e, read_le(stream, 4)), count - 1)

\* read_akm_cyphers ending its loop quietly when the stream runs out
RECURSIVE read_akm_cyphers_lenient(_, _, _)
read_akm_cyphers_lenient(stream, e, count) ==
    IF count = 0 \/ ~can_read(stream, 4) THEN [ok |-> TRUE, stream |-> stream, e |-> e]
    ELSE read_akm_cyphers_lenient(skip(stream, 4),
                                  add_akm_cypher(e, read_le(stream, 4)), count - 1)

\* while (akm_cyphers_size--) add_akm_cypher(read<uint32_t>())
RECURSIVE read_akm_cyphers(_, _, _)
read_akm_cyphers(stream, e, count) ==
    IF count = 0 THEN [ok |-> TRUE, stream |-> stream, e |-> e]
    ELSE IF read_fails(stream, 4) THEN [ok |-> FALSE, stream |-> stream, e |-> e]
    ELSE read_akm_cyphers(skip(stream, 4),
                          add_akm_cypher(e, read_le(stream, 4)), count - 1)

\* from the AKM count to the end of init
init_akm(s4, e3) ==
    IF read_fails(s4, 2) THEN Thrown("malformed_packet", "akm_count", s4, e3)
    ELSE
    LET akm_size == read_le(s4, 2)
        s5 == skip(s4, 2)
    IN
    IF ~akm_can_read(s5, akm_size) THEN Thrown("malformed_packet", "akm_check", s5, e3)
    ELSE
    LET ra == read_akm_cyphers(s5, e3, akm_size) IN
    IF ~ra.ok THEN Thrown("malformed_packet", "akm_entry", ra.stream, ra.e)
    ELSE IF read_fails(ra.stream, 2)
    THEN Thrown("malformed_packet", "capabilities", ra.stream, ra.e)
    ELSE Returned(skip(ra.stream, 2), capabilities(ra.e, read_le(ra.stream, 2)))

init(mem, sz) ==
    LET s0 == init_stream(mem, sz) IN
    IF read_fails(s0, 2) THEN Thrown("malformed_packet", "version", s0, Unparsed)
    ELSE
    LET e1 == version(Unparsed, read_le(s0, 2))
        s1 == skip(s0, 2)
    IN
    IF read_fails(s1, 4) THEN Thrown("malformed_packet", "group_suite", s1, e1)
    ELSE
    LET e2 == group_suite(e1, read_le(s1, 4))
        s2 == skip(s1, 4)
    IN
    IF read_fails(s2, 2) THEN Thrown("malformed_packet", "pairwise_count", s2, e2)
    ELSE
    LET pairwise_size == read_le(s2, 2)
        s3 == skip(s2, 2)
    IN
    IF ~pairwise_can_read(s3, pairwise_size)
    THEN Thrown("malformed_packet", "pairwise_check", s3, e2)
    ELSE
    LET rp == read_pairwise_cyphers(s3, e2, pairwise_size) IN
    IF ~rp.ok THEN Thrown("malformed_packet", "pairwise_entry", rp.stream, rp.e)
    ELSE init_akm(rp.stream, rp.e)

\* RSNInformation(const serialization_type &buffer)
RSNInformation_buffer(buf) == init(buf, Len(buf))

\* RSNInformation(const uint8_t *buffer, uint32_t total_sz)
RSNInformation_ptr(mem, sz) == init(mem, sz)

\* from_option_min counting the two counts only
from_option_min_short == 2 * 2

\* from_option_min counting every fixed field of the element
from_option_min_whole == 2 + 4 + 2 + 2 + 2

\* the smallest option from_option hands to the parser
from_option_min == 2 * 2 + 4

\* from_option(opt), opt an option with data_ptr() and data_size()
from_option(opt) ==
    IF opt.data_size < from_option_min
    THEN Thrown("malformed_option", "option_size", InputMemoryStream(opt.data_ptr, 0), Unparsed)
    ELSE RSNInformation_ptr(opt.data_ptr, opt.data_size)

\* no parsing call has been made on the state as it stands
NoOutcome ==
    [op |-> "none", status |-> "none", failed_at |-> "none", entity |-> Unparsed,
     read_end |-> 0, pairwise_read |-> 0, akm_read |-> 0]

\* the record of a call of op that ended as r
Outcome(op, r) ==
    [op |-> op, status |-> r.status, failed_at |-> r.failed_at, entity |-> r.entity,
     read_end |-> r.read_end, pairwise_read |-> r.pairwise_read, akm_read |-> r.akm_read]

(***************************************************************************)
(* Received elements: the wire image of a header, two count fields and two *)
(* lists, the counts chosen freely (they are the sender's), cut to any     *)
(* declared length.  The wire is little-endian whatever the host.          *)
(***************************************************************************)
le16(x) == <<ByteOf(x, 0), ByteOf(x, 1)>>
le32(x) == <<ByteOf(x, 0), ByteOf(x, 1), ByteOf(x, 2), ByteOf(x, 3)>>
le32s(list) == [i \in 1..(4 * Len(list)) |-> ByteOf(list[((i - 1) \div 4) + 1], (i - 1) % 4)]

\* the lists a received element carries: entries alternate, so that a list
\* read in another order, or from another place, differs
PairwiseSent(k) == [i \in 1..k |-> IF i % 2 = 1 THEN TKIP ELSE CCMP]
AkmSent(k) == [i \in 1..k |-> IF i % 2 = 1 THEN PSK ELSE PMKSA]

Headers == {[ver |-> 0, gs |-> 0, cap |-> 0], [ver |-> 1, gs |-> CCMP, cap |-> 12]}

Layout(h, n, pairwise, m, akm) ==
    le16(h.ver) \o le32(h.gs) \o le16(n) \o le32s(pairwise)
    \o le16(m) \o le32s(akm) \o le16(h.cap)

(***************************************************************************)
(* Initial states.                                                         *)
(***************************************************************************)
\* a default-constructed entity and its twin, nothing serialized or received
Init ==
    /\ hostBig \in BOOLEAN
    /\ \E g1 \in Indeterminate, g2 \in Indeterminate :
          /\ info = RSNInformation(g1)
          /\ twin = RSNInformation(g2)
    /\ wire = <<>>
    /\ twin_wire = <<>>
    /\ buffer = <<>>
    /\ total_sz = 0
    /\ outcome = NoOutcome

\* an element has been received; the caller holds wpa2_psk()
InitParse ==
    /\ hostBig \in BOOLEAN
    /\ info = wpa2_psk
    /\ twin = wpa2_psk
    /\ wire = <<>>
    /\ twin_wire = <<>>
    /\ \E h \in Headers, n \in 0..MaxCount, m \in 0..MaxCount,
          np \in 0..MaxParseList, na \in 0..MaxParseList :
          /\ buffer = Layout(h, n, PairwiseSent(np), m, AkmSent(na))
          /\ total_sz \in 0..Len(buffer)
    /\ outcome = NoOutcome

\* RSNInformation(), group_suite(CCMP) and WideFill calls of
\* add_pairwise_cypher(CCMP) on info; the twin has had group_suite(CCMP) only
InitWide ==
    /\ hostBig \in BOOLEAN
    /\ \E g \in Indeterminate :
          /\ twin = group_suite(RSNInformation(g), CCMP)
          /\ info = [twin EXCEPT !._pairwise_cyphers = [i \in 1..WideFill |-> CCMP]]
    /\ wire = <<>>
    /\ twin_wire = <<>>
    /\ buffer = <<>>
    /\ total_sz = 0
    /\ outcome = NoOutcome

(***************************************************************************)
(* Actions: one per call the caller can make.  A call that changes the     *)
(* entity makes the caller drop the buffer and the parse result it held.   *)
(***************************************************************************)
Dropped ==
    /\ wire' = <<>>
    /\ twin_wire' = <<>>
    /\ outcome' = NoOutcome
    /\ UNCHANGED <<hostBig, buffer, total_sz>>

Construct ==
    /\ \E g1 \in Indeterminate, g2 \in Indeterminate :
          /\ info' = RSNInformation(g1)
          /\ twin' = RSNInformation(g2)
    /\ Dropped

Wpa2Psk ==
    /\ info' = wpa2_psk
    /\ twin' = wpa2_psk
    /\ Dropped

SetVersion ==
    /\ \E ver \in Versions :
          /\ info' = version(info, ver)
          /\ twin' = version(twin, ver)
    /\ Dropped

SetCapabilities ==
    /\ \E cap \in Capabilities :
          /\ info' = capabilities(info, cap)
          /\ twin' = capabilities(twin, cap)
    /\ Dropped

SetGroupSuite ==
    /\ \E group \in Cyphers :
          /\ info' = group_suite(info, group)
          /\ twin' = group_suite(twin, group)
    /\ Dropped

AddPairwiseCypher(bound) ==
    /\ Len(info._pairwise_cyphers) < bound
    /\ \E cypher \in Cyphers :
          /\ info' = add_pairwise_cypher(info, cypher)
          /\ twin' = add_pairwise_cypher(twin, cypher)
    /\ Dropped

AddAkmCypher(bound) ==
    /\ Len(info._akm_cyphers) < bound
    /\ \E akm \in AKMs :
          /\ info' = add_akm_cypher(info, akm)
          /\ twin' = add_akm_cypher(twin, akm)
    /\ Dropped

\* wire = info.serialize(), by a caller that holds no buffer of the entity
Serialize ==
    /\ wire = <<>>
    /\ wire' = serialize(info)
    /\ twin_wire' = serialize(twin)
    /\ UNCHANGED <<hostBig, info, twin, buffer, total_sz, outcome>>

\* RSNInformation parsed(wire)
ParseWire ==
    /\ wire # <<>>
    /\ outcome' = Outcome("parse_wire", RSNInformation_buffer(wire))
    /\ UNCHANGED <<hostBig, info, twin, wire, twin_wire, buffer, total_sz>>

\* RSNInformation parsed(buffer, total_sz)
ParseBuffer ==
    /\ outcome' = Outcome("parse", RSNInformation_ptr(buffer, total_sz))
    /\ UNCHANGED <<hostBig, info, twin, wire, twin_wire, buffer, total_sz>>

\* RSNInformation::from_option(opt), opt the received element
FromOption ==
    /\ outcome' = Outcome("from_option",
                          from_option([data_ptr |-> buffer, data_size |-> total_sz]))
    /\ UNCHANGED <<hostBig, info, twin, wire, twin_wire, buffer, total_sz>>

\* info = parsed
Adopt ==
    /\ outcome.status = "ok"
    /\ info' = outcome.entity
    /\ twin' = outcome.entity
    /\ Dropped

(***************************************************************************)
(* Specifications.                                                         *)
(***************************************************************************)
\* building, serializing and parsing back
Next ==
    \/ Construct
    \/ Wpa2Psk
    \/ SetVersion
    \/ SetCapabilities
    \/ SetGroupSuite
    \/ AddPairwiseCypher(MaxList)
    \/ AddAkmCypher(MaxList)
    \/ Serialize
    \/ ParseWire
    \/ Adopt

Spec == Init /\ [][Next]_vars

\* parsing a received element
NextParse ==
    \/ ParseBuffer
    \/ FromOption
    \/ Adopt
    \/ Serialize

SpecParse == InitParse /\ [][NextParse]_vars

\* lists about 2^16 entries long
NextWide ==
    \/ AddPairwiseCypher(WideFill + WideRoom)
    \/ AddAkmCypher(MaxList)
    \/ Serialize

SpecWide == InitWide /\ [][NextWide]_vars

(***************************************************************************)
(* What a buffer declares, read off the wire without the parser.           *)
(***************************************************************************)
WireU16(mem, off) == mem[off + 1] + 256 * mem[off + 2]

\* the pairwise count field lies in the element and declares more entries
\* than the bytes left after it hold
PairwiseShort(mem, sz) ==
    /\ sz >= 8
    /\ sz - 8 < 4 * WireU16(mem, 6)

\* the pairwise list lies in the element, and the AKM count field after it
\* declares more entries than the bytes left after it hold
AkmShort(mem, sz) ==
    /\ sz >= 8
    /\ LET akm_at == 8 + 4 * WireU16(mem, 6)
       IN /\ sz >= akm_at + 2
          /\ sz - (akm_at + 2) < 4 * WireU16(mem, akm_at)

AllZero(mem, sz) == \A i \in 1..sz : mem[i] = 0

ZeroEntity ==
    [_version |-> 0, _group_suite |-> 0, _pairwise_cyphers |-> <<>>,
     _akm_cyphers |-> <<>>, _capabilities |-> 0]

(***************************************************************************)
(* Claims.                                                                 *)
(***************************************************************************)

\* C1: parsing the bytes serialize() returned, with length the buffer's size,
\* succeeds and yields an entity equal to the serialized one: same version,
\* group suite, capabilities and the same list entries in the same order.
C1_RoundTrip ==
    outcome.op = "parse_wire" =>
        /\ outcome.status = "ok"
        /\ outcome.entity = info

\* C1 witness: a big-endian host has parsed back an entity with two different
\* pairwise entries, an AKM entry and a version other than the default.
C1_Witness ==
    /\ outcome.op = "parse_wire"
    /\ hostBig
    /\ Len(info._pairwise_cyphers) = 2
    /\ info._pairwise_cyphers[1] # info._pairwise_cyphers[2]
    /\ Len(info._akm_cyphers) = 1
    /\ info._version = 513
    /\ outcome.entity = info

C3_SmallOption ==
    (outcome.op = "from_option" /\ total_sz < 8) =>
        /\ outcome.status = "malformed_option"
        /\ outcome.failed_at = "option_size"
        /\ outcome.read_end = 0

\* C3 witness: from_option was called on an option of 7 bytes.
C3_Witness ==
    /\ outcome.op = "from_option"
    /\ total_sz = 7
    /\ outcome.status = "malformed_option"

C5_SameCallsSameBytes ==
    wire # <<>> => wire = twin_wire

\* C6: serialize() returns exactly 12 + 4 * (pairwise entries + AKM entries)
\* bytes, and writes that many: none left unwritten, none past the end.
C6_ExactSize ==
    wire # <<>> =>
        /\ Len(wire) = 12 + 4 * (Len(info._pairwise_cyphers) + Len(info._akm_cyphers))
        /\ Len(serialize_writes(info)) = Len(wire)
        /\ wire = serialize_writes(info)

\* C6 witness: an entity with two pairwise entries and one AKM entry was
\* serialized into 24 bytes.
C6_Witness ==
    /\ wire # <<>>
    /\ Len(info._pairwise_cyphers) = 2
    /\ Len(info._akm_cyphers) = 1
    /\ Len(wire) = 24

\* C7: wpa2_psk() holds pairwise [CCMP], AKM [PSK] and capabilities 0, and
\* serializes to the 20 bytes 01 00, CCMP, 01 00, CCMP, 01 00, PSK, 00 00,
\* the codes little-endian.
C7_Wpa2PskVector ==
    (info = wpa2_psk /\ wire # <<>>) =>
        /\ info._pairwise_cyphers = <<CCMP>>
        /\ info._akm_cyphers = <<PSK>>
        /\ info._capabilities = 0
        /\ wire = <<1, 0>> \o le32(CCMP) \o <<1, 0>> \o le32(CCMP)
                  \o <<1, 0>> \o le32(PSK) \o <<0, 0>>

\* C8: when a count field declares more entries than the bytes after it
\* hold, the parse raises malformed_packet at the check that follows the
\* count: no entry of that list has been read from the stream or appended,
\* and the stream stands right after the count field.
C8_SingleCheck ==
    /\ (outcome.op = "parse" /\ PairwiseShort(buffer, total_sz)) =>
          /\ outcome.status = "malformed_packet"
          /\ outcome.pairwise_read = 0
          /\ outcome.read_end = 8
    /\ (outcome.op = "parse" /\ ~PairwiseShort(buffer, total_sz) /\ AkmShort(buffer, total_sz)) =>
          /\ outcome.status = "malformed_packet"
          /\ outcome.akm_read = 0
          /\ outcome.read_end = 10 + 4 * outcome.pairwise_read

\* C9: each 16-bit count field serialize writes equals the number of 4-byte
\* entries that follow it, however many add calls were made: in the bytes
\* serialize returns for the entity as it stands, the pairwise count n is
\* followed by n entries, the AKM count m after them by m entries, and the
\* capabilities end the buffer.
C9_CountsMatchEntries ==
    LET bytes == serialize(info)
        n == WireU16(bytes, 6)
    IN /\ Len(bytes) >= 10 + 4 * n
       /\ Len(bytes) = 12 + 4 * (n + WireU16(bytes, 8 + 4 * n))

====
